---------------------------- MODULE Spec2Model ----------------------------
(***************************************************************************)
(* A model of src/lib/steps/rollup.ts of ng-packagr: the two decision      *)
(* functions externalModuleIdStrategy and umdModuleIdStrategy, and the     *)
(* build steps flattenToFesm15 / flattenToUmd that drive the bundler.      *)
(*                                                                         *)
(* JavaScript strings are sequences of one-character strings, so that the  *)
(* prefix tests, regular expressions and String.prototype.replace of the   *)
(* source are computed character by character.                             *)
(***************************************************************************)
EXTENDS Integers, Sequences, FiniteSets, TLC

VARIABLES
    moduleId,       \* first argument of the strategy call under way
    argc,           \* number of arguments the call passes (1: second omitted)
    embedded,       \* second argument of externalModuleIdStrategy
    umdModuleIds,   \* second argument of umdModuleIdStrategy
    platform,       \* which node `path` implementation is loaded
    returned,       \* whether the strategy call has returned
    isExternal,     \* value returned by externalModuleIdStrategy
    globalName,     \* value returned by umdModuleIdStrategy
    pc,             \* position of the build step under way
    step,           \* which BuildStep is under way
    opts,           \* RollupOptions handed to rollup()
    artefacts,      \* the build context's artefacts object
    bundle,         \* the local `bundle` of rollup(): the bundler's result
    emitted,        \* diagnostics the bundler has raised, in emission order
    logged,         \* what the log collaborator has received, in order
    disk,           \* files the bundler has written
    libError,       \* the error the bundler's pending promise was rejected with
    outcome,        \* settlement of the promises the build steps returned
    calls           \* bundler operations started by the step under way

vars ==
    << moduleId, argc, embedded, umdModuleIds, platform, returned, isExternal,
       globalName, pc, step, opts, artefacts, bundle, emitted, logged, disk,
       libError, outcome, calls >>

strategyVars ==
    << moduleId, argc, embedded, umdModuleIds, platform, returned, isExternal,
       globalName >>

stepVars ==
    << pc, step, opts, artefacts, bundle, emitted, logged, disk, libError,
       outcome, calls >>

-----------------------------------------------------------------------------
(* Bounds of the model.                                                    *)

\* longest identifier handed to externalModuleIdStrategy, in fragments
MaxParts == 3

\* longest identifier tail handed to umdModuleIdStrategy, in fragments
MaxTail == 2

\* diagnostics the bundler raises over the whole run
MaxWarnings == 2

\* build steps the pipeline starts
MaxRuns == 2

-----------------------------------------------------------------------------
(* String literals of the source, and of the inputs, as character sequences *)

S_AngularPBD ==
    << "@", "a", "n", "g", "u", "l", "a", "r", "/", "p", "l", "a", "t", "f", "o", "r", "m", "-", "b", "r", "o", "w", "s", "e", "r", "-", "d", "y", "n", "a", "m", "i", "c" >>
S_AngularPB ==
    << "@", "a", "n", "g", "u", "l", "a", "r", "/", "p", "l", "a", "t", "f", "o", "r", "m", "-", "b", "r", "o", "w", "s", "e", "r" >>
S_Angular ==
    << "@", "a", "n", "g", "u", "l", "a", "r", "/" >>
S_RxjsSlash ==
    << "r", "x", "j", "s", "/" >>
S_Add ==
    << "a", "d", "d", "/" >>
S_Observable ==
    << "o", "b", "s", "e", "r", "v", "a", "b", "l", "e" >>
S_Scheduler ==
    << "s", "c", "h", "e", "d", "u", "l", "e", "r" >>
S_Symbol ==
    << "s", "y", "m", "b", "o", "l" >>
S_Operator ==
    << "o", "p", "e", "r", "a", "t", "o", "r" >>
S_CommonjsHelpers ==
    << "c", "o", "m", "m", "o", "n", "j", "s", "H", "e", "l", "p", "e", "r", "s" >>
S_Slash ==
    << "/" >>
S_Dot ==
    << "." >>
N_NgPBD ==
    << "n", "g", ".", "p", "l", "a", "t", "f", "o", "r", "m", "B", "r", "o", "w", "s", "e", "r", "D", "y", "n", "a", "m", "i", "c" >>
N_NgPB ==
    << "n", "g", ".", "p", "l", "a", "t", "f", "o", "r", "m", "B", "r", "o", "w", "s", "e", "r" >>
N_Ng ==
    << "n", "g", "." >>
N_RxObservable ==
    << "R", "x", ".", "O", "b", "s", "e", "r", "v", "a", "b", "l", "e" >>
N_RxScheduler ==
    << "R", "x", ".", "S", "c", "h", "e", "d", "u", "l", "e", "r" >>
N_RxSymbol ==
    << "R", "x", ".", "S", "y", "m", "b", "o", "l" >>
N_RxObservablePrototype ==
    << "R", "x", ".", "O", "b", "s", "e", "r", "v", "a", "b", "l", "e", ".", "p", "r", "o", "t", "o", "t", "y", "p", "e" >>
N_Rx ==
    << "R", "x" >>
EmptyString ==
    << >>

\* strings that occur only as inputs or as expected results
I_Core ==
    << "c", "o", "r", "e" >>
I_SlashTesting ==
    << "/", "t", "e", "s", "t", "i", "n", "g" >>
I_Rxjs ==
    << "r", "x", "j", "s" >>
I_Subject ==
    << "S", "u", "b", "j", "e", "c", "t" >>
I_Lodash ==
    << "l", "o", "d", "a", "s", "h" >>
I_Constructor ==
    << "c", "o", "n", "s", "t", "r", "u", "c", "t", "o", "r" >>
I_Drive ==
    << "C", ":" >>
I_Backslash ==
    << "\\" >>
I_Newline ==
    << "\n" >>
I_MyLib ==
    << "m", "y", ".", "l", "i", "b" >>
I_Path ==
    << "a", "/", "b" >>
I_AngularCore ==
    S_Angular \o I_Core
I_NgCore ==
    << "n", "g", ".", "c", "o", "r", "e" >>
I_NgPBDTesting ==
    << "n", "g", ".", "p", "l", "a", "t", "f", "o", "r", "m", "B", "r", "o", "w", "s", "e", "r", "D", "y", "n", "a", "m", "i", "c", ".", "t", "e", "s", "t", "i", "n", "g" >>

-----------------------------------------------------------------------------
(* JavaScript string and regular-expression primitives the source uses     *)

\* String.prototype.startsWith
StartsWith(s, p) ==
    /\ Len(s) >= Len(p)
    /\ SubSeq(s, 1, Len(p)) = p

\* String.prototype.indexOf: 0-based index of the first occurrence, or -1
IndexOf(s, sub) ==
    LET hits == { i \in 1..(Len(s) - Len(sub) + 1) :
                    SubSeq(s, i, i + Len(sub) - 1) = sub }
    IN  IF hits = {} THEN -1
        ELSE (CHOOSE i \in hits : \A j \in hits : i <= j) - 1

\* String.prototype.replace with a string pattern: the FIRST occurrence only
StringReplace(s, pattern, replacement) ==
    LET at == IndexOf(s, pattern)
    IN  IF at < 0 THEN s
        ELSE SubSeq(s, 1, at) \o replacement
                \o SubSeq(s, at + Len(pattern) + 1, Len(s))

\* characters the regular-expression atom `.` does not match
LineTerminators ==
    { "\n", "\r" }

\* last index of the longest run `.*` matches from index `from` (from-1: empty)
DotRunEnd(s, from) ==
    LET stops == { i \in from..Len(s) : s[i] \in LineTerminators }
    IN  IF stops = {} THEN Len(s)
        ELSE (CHOOSE i \in stops : \A j \in stops : i <= j) - 1

NoMatch ==
    [matched |-> FALSE, group1 |-> EmptyString]

\* RegExp.prototype.exec of /^<prefix>(\/?.*)/ : group 1 is optional slash
\* plus a `.*` run, which is the `.*` run from the end of the prefix
ExecPrefixRest(prefix, s) ==
    IF StartsWith(s, prefix)
    THEN [matched |-> TRUE,
          group1  |-> SubSeq(s, Len(prefix) + 1, DotRunEnd(s, Len(prefix) + 1))]
    ELSE NoMatch

\* RegExp.prototype.exec of /^<prefix>(.+)/ : group 1 needs one character
ExecPrefixSome(prefix, s) ==
    IF StartsWith(s, prefix) /\ DotRunEnd(s, Len(prefix) + 1) > Len(prefix)
    THEN [matched |-> TRUE,
          group1  |-> SubSeq(s, Len(prefix) + 1, DotRunEnd(s, Len(prefix) + 1))]
    ELSE NoMatch

\* a slip: the optional `add/` group left out of the pattern
TestRxjsOptAdd_NoAdd(word, s) ==
    StartsWith(s, S_RxjsSlash \o word)

\* RegExp.prototype.test of /^rxjs\/(add\/)?<word>/
TestRxjsOptAdd(word, s) ==
    \/ StartsWith(s, S_RxjsSlash \o word)
    \/ StartsWith(s, S_RxjsSlash \o S_Add \o word)

\* RegExp.prototype.test of /^rxjs\/<word>/
TestRxjs(word, s) ==
    StartsWith(s, S_RxjsSlash \o word)

\* the value a missing property reads as
Undefined ==
    << "undefined" >>

\* the members a plain object inherits (Object.prototype), which are not
\* strings; `constructor` stands for all of them
ObjectPrototype ==
    ( I_Constructor :> << "[Function: Object]" >> )

\* obj[key] on a plain object: own property, else Object.prototype's, else undefined
PropertyGet(obj, key) ==
    IF key \in DOMAIN obj THEN obj[key]
    ELSE IF key \in DOMAIN ObjectPrototype THEN ObjectPrototype[key]
    ELSE Undefined

\* JavaScript truthiness of a property value: undefined and '' are falsy
Truthy(v) ==
    v # Undefined /\ v # EmptyString

\* a parameter with a default value: the default replaces an omitted argument
DefaultParam(given, value, default) ==
    IF given THEN value ELSE default

EmptyObject ==
    [k \in {} |-> EmptyString]

-----------------------------------------------------------------------------
(* externalModuleIdStrategy                                                *)

Platforms ==
    { "posix", "win32" }

PathSeparators(pf) ==
    IF pf = "win32" THEN { "/", "\\" } ELSE { "/" }

\* the drive letters that occur in the enumerated identifiers
DriveLetters ==
    { "C" }

\* path.isAbsolute of node, for the platform the process runs on
IsAbsolute(pf, p) ==
    /\ Len(p) > 0
    /\ \/ p[1] \in PathSeparators(pf)
       \/ /\ pf = "win32"
          /\ Len(p) > 2
          /\ p[1] \in DriveLetters
          /\ p[2] = ":"
          /\ p[3] \in PathSeparators(pf)

\* a slip: the embedded entries compared as package prefixes of the identifier
SomeEquals_AsPrefix(arr, id) ==
    \E i \in 1..Len(arr) : StartsWith(id, arr[i])

\* Array.prototype.some(x => x === moduleId)
SomeEquals(arr, id) ==
    \E i \in 1..Len(arr) : arr[i] = id

\* a slip: the embedded list not consulted
externalModuleIdStrategy_NoEmbedded(pf, id, given, emb) ==
    ~ ( \/ IsAbsolute(pf, id)
        \/ StartsWith(id, S_Dot)
        \/ StartsWith(id, S_Slash)
        \/ IndexOf(id, S_CommonjsHelpers) >= 0 )

\* externalModuleIdStrategy(moduleId, embedded = []) under platform pf;
\* `given` tells whether the second argument was passed
externalModuleIdStrategy(pf, id, given, emb) ==
    IF \/ IsAbsolute(pf, id)
       \/ StartsWith(id, S_Dot)
       \/ StartsWith(id, S_Slash)
       \/ IndexOf(id, S_CommonjsHelpers) >= 0
       \/ SomeEquals(DefaultParam(given, emb, << >>), id)
    THEN FALSE
    ELSE TRUE

-----------------------------------------------------------------------------
(* umdModuleIdStrategy                                                     *)

\* /^\@angular\/platform-browser-dynamic(\/?.*)/.exec(moduleId)
ExecPlatformBrowserDynamic(id) ==
    ExecPrefixRest(S_AngularPBD, id)

\* /^\@angular\/platform-browser(\/?.*)/.exec(moduleId)
ExecPlatformBrowser(id) ==
    ExecPrefixRest(S_AngularPB, id)

\* /^\@angular\/(.+)/.exec(moduleId)
ExecAngular(id) ==
    ExecPrefixSome(S_Angular, id)

\* a slip: the single-segment rule without the `$` anchor
TestRxjsSingleSegment_NoAnchor(id) ==
    /\ StartsWith(id, S_RxjsSlash)
    /\ Len(id) > Len(S_RxjsSlash)
    /\ id[Len(S_RxjsSlash) + 1] # "/"

\* /^rxjs\/[^\/]+$/.test(moduleId)
TestRxjsSingleSegment(id) ==
    /\ StartsWith(id, S_RxjsSlash)
    /\ Len(id) > Len(S_RxjsSlash)
    /\ \A i \in (Len(S_RxjsSlash) + 1)..Len(id) : id[i] # "/"

\* a slip: the platform-browser rule placed before the dynamic one
umdModuleIdStrategy_BrowserFirst(id, given, ids) ==
    LET nameProvided == PropertyGet(DefaultParam(given, ids, EmptyObject), id)
        dyn == ExecPlatformBrowserDynamic(id)
        pb  == ExecPlatformBrowser(id)
        ng  == ExecAngular(id)
    IN  IF Truthy(nameProvided) THEN nameProvided
        ELSE IF pb.matched
             THEN StringReplace(N_NgPB \o pb.group1, S_Slash, S_Dot)
        ELSE IF dyn.matched
             THEN StringReplace(N_NgPBD \o dyn.group1, S_Slash, S_Dot)
        ELSE IF ng.matched
             THEN StringReplace(N_Ng \o ng.group1, S_Slash, S_Dot)
        ELSE IF TestRxjsOptAdd(S_Observable, id) THEN N_RxObservable
        ELSE IF TestRxjs(S_Scheduler, id) THEN N_RxScheduler
        ELSE IF TestRxjs(S_Symbol, id) THEN N_RxSymbol
        ELSE IF TestRxjsOptAdd(S_Operator, id) THEN N_RxObservablePrototype
        ELSE IF TestRxjsSingleSegment(id) THEN N_Rx
        ELSE EmptyString

\* umdModuleIdStrategy(moduleId, umdModuleIds = {}); `given` tells whether
\* the second argument was passed
umdModuleIdStrategy(id, given, ids) ==
    LET nameProvided == PropertyGet(DefaultParam(given, ids, EmptyObject), id)
        dyn == ExecPlatformBrowserDynamic(id)
        pb  == ExecPlatformBrowser(id)
        ng  == ExecAngular(id)
    IN  IF Truthy(nameProvided) THEN nameProvided
        ELSE IF dyn.matched
             THEN StringReplace(N_NgPBD \o dyn.group1, S_Slash, S_Dot)
        ELSE IF pb.matched
             THEN StringReplace(N_NgPB \o pb.group1, S_Slash, S_Dot)
        ELSE IF ng.matched
             THEN StringReplace(N_Ng \o ng.group1, S_Slash, S_Dot)
        ELSE IF TestRxjsOptAdd(S_Observable, id) THEN N_RxObservable
        ELSE IF TestRxjs(S_Scheduler, id) THEN N_RxScheduler
        ELSE IF TestRxjs(S_Symbol, id) THEN N_RxSymbol
        ELSE IF TestRxjsOptAdd(S_Operator, id) THEN N_RxObservablePrototype
        ELSE IF TestRxjsSingleSegment(id) THEN N_Rx
        ELSE EmptyString

-----------------------------------------------------------------------------
(* The build steps: rollup(), flattenToFesm15, flattenToUmd                *)

\* the build context a step receives ({ artefacts, entryPoint, pkg })
StageDir ==
    << "/", "stage" >>

EntryPoint ==
    [ moduleId       |-> "my-lib",
      umdModuleId    |-> "my.lib",
      flatModuleFile |-> "my-lib",
      embedded       |-> << I_Lodash >>,
      umdModuleIds   |-> ( I_Lodash :> << "_" >> ) ]

InitialArtefacts ==
    [ stageDir         |-> StageDir,
      es2015EntryFile  |-> StageDir \o << "es2015", "my-lib", ".js" >>,
      fesm5BundleFile  |-> StageDir \o << "esm5", "my-lib", ".js" >>,
      fesm15BundleFile |-> Undefined,
      umdBundleFile    |-> Undefined ]

\* path.resolve(base, ...tokens) for an absolute base and plain names
PathResolve(base, tokens) ==
    base \o tokens

\* what the bundler can raise through onwarn, and reject its promises with
WarningCodes ==
    { "THIS_IS_UNDEFINED", "UNRESOLVED_IMPORT" }

WarningMessages ==
    { "m1", "m2" }

Warnings ==
    [ code : WarningCodes, message : WarningMessages ]

Errors ==
    { "E1", "E2" }

NoOpts ==
    [ moduleName |-> "", entry |-> Undefined, format |-> "", dest |-> Undefined,
      umdModuleIds |-> EmptyObject, embedded |-> << >> ]

NoCalls ==
    [ build |-> 0, write |-> 0 ]

\* a slip: every diagnostic forwarded to the logger
onwarn_LogAll(log, warning, n) ==
    Append(log, [level |-> "warn", message |-> warning.message, diag |-> n])

\* the onwarn callback handed to the bundler: the log after diagnostic
\* number n has been handled
onwarn(log, warning, n) ==
    IF warning.code = "THIS_IS_UNDEFINED"
    THEN log
    ELSE Append(log, [level |-> "warn", message |-> warning.message, diag |-> n])

\* rollup(opts) up to its first await: log.debug, then __rollup.rollup(...)
rollup(o) ==
    /\ opts' = o
    /\ logged' = Append(logged, [level |-> "debug", message |-> "rollup", diag |-> 0])
    /\ calls' = [calls EXCEPT !.build = @ + 1]
    /\ bundle' = "none"
    /\ pc' = "building"

\* a slip: the context field assigned before rollup() is awaited
flattenToFesm15_EagerUpdate ==
    /\ pc = "idle"
    /\ Len(outcome) < MaxRuns
    /\ LET fesm15File ==
            PathResolve(artefacts.stageDir,
                        << "esm2015", EntryPoint.flatModuleFile, ".js" >>)
       IN  /\ rollup([ moduleName   |-> EntryPoint.moduleId,
                       entry        |-> artefacts.es2015EntryFile,
                       format       |-> "es",
                       dest         |-> fesm15File,
                       umdModuleIds |-> EmptyObject,
                       embedded     |-> EntryPoint.embedded ])
           /\ artefacts' = [artefacts EXCEPT !.fesm15BundleFile = fesm15File]
    /\ step' = "flattenToFesm15"
    /\ outcome' = Append(outcome, [step |-> "flattenToFesm15", state |-> "pending",
                                   error |-> "none"])
    /\ UNCHANGED << emitted, disk, libError >>
    /\ UNCHANGED strategyVars

\* flattenToFesm15 up to the await of rollup()
flattenToFesm15 ==
    /\ pc = "idle"
    /\ Len(outcome) < MaxRuns
    /\ LET fesm15File ==
            PathResolve(artefacts.stageDir,
                        << "esm2015", EntryPoint.flatModuleFile, ".js" >>)
       IN  rollup([ moduleName   |-> EntryPoint.moduleId,
                    entry        |-> artefacts.es2015EntryFile,
                    format       |-> "es",
                    dest         |-> fesm15File,
                    umdModuleIds |-> EmptyObject,
                    embedded     |-> EntryPoint.embedded ])
    /\ step' = "flattenToFesm15"
    /\ outcome' = Append(outcome, [step |-> "flattenToFesm15", state |-> "pending",
                                   error |-> "none"])
    /\ UNCHANGED << artefacts, emitted, disk, libError >>
    /\ UNCHANGED strategyVars

\* flattenToUmd up to the await of rollup(); the spread copy of
\* entryPoint.umdModuleIds has the keys and values of the original
flattenToUmd ==
    /\ pc = "idle"
    /\ Len(outcome) < MaxRuns
    /\ LET umdFile ==
            PathResolve(artefacts.stageDir,
                        << "bundles", EntryPoint.flatModuleFile, ".umd.js" >>)
       IN  rollup([ moduleName   |-> EntryPoint.umdModuleId,
                    entry        |-> artefacts.fesm5BundleFile,
                    format       |-> "umd",
                    dest         |-> umdFile,
                    umdModuleIds |-> EntryPoint.umdModuleIds,
                    embedded     |-> EntryPoint.embedded ])
    /\ step' = "flattenToUmd"
    /\ outcome' = Append(outcome, [step |-> "flattenToUmd", state |-> "pending",
                                   error |-> "none"])
    /\ UNCHANGED << artefacts, emitted, disk, libError >>
    /\ UNCHANGED strategyVars

\* the bundler raises a diagnostic while it builds or writes: it calls onwarn
BundlerWarns(warning) ==
    /\ pc \in { "building", "writing" }
    /\ Len(emitted) < MaxWarnings
    /\ emitted' = Append(emitted, warning)
    /\ logged' = onwarn(logged, warning, Len(emitted) + 1)
    /\ UNCHANGED << pc, step, opts, artefacts, bundle, disk, libError, outcome,
                    calls >>
    /\ UNCHANGED strategyVars

\* __rollup.rollup(...) fulfils: rollup() resumes and calls bundle.write(...)
RollupFulfils ==
    /\ pc = "building"
    /\ bundle' = "bundle"
    /\ calls' = [calls EXCEPT !.write = @ + 1]
    /\ pc' = "writing"
    /\ UNCHANGED << step, opts, artefacts, emitted, logged, disk, libError,
                    outcome >>
    /\ UNCHANGED strategyVars

\* __rollup.rollup(...) rejects
RollupRejects(e) ==
    /\ pc = "building"
    /\ libError' = e
    /\ pc' = "rejected"
    /\ UNCHANGED << step, opts, artefacts, bundle, emitted, logged, disk,
                    outcome, calls >>
    /\ UNCHANGED strategyVars

\* bundle.write(...) fulfils: the bundle and its source map are on disk
WriteFulfils ==
    /\ pc = "writing"
    /\ disk' = disk \cup { opts.dest, opts.dest \o << ".map" >> }
    /\ pc' = "written"
    /\ UNCHANGED << step, opts, artefacts, bundle, emitted, logged, libError,
                    outcome, calls >>
    /\ UNCHANGED strategyVars

\* bundle.write(...) rejects
WriteRejects(e) ==
    /\ pc = "writing"
    /\ libError' = e
    /\ pc' = "rejected"
    /\ UNCHANGED << step, opts, artefacts, bundle, emitted, logged, disk,
                    outcome, calls >>
    /\ UNCHANGED strategyVars

\* the name of the artefacts field a step assigns
OwnField(s) ==
    IF s = "flattenToFesm15" THEN "fesm15BundleFile" ELSE "umdBundleFile"

\* the rejection leaves rollup() and the step through their awaits
StepRejects ==
    /\ pc = "rejected"
    /\ outcome' = [outcome EXCEPT ![Len(outcome)] =
                      [@ EXCEPT !.state = "rejected", !.error = libError]]
    /\ pc' = "idle"
    /\ step' = "none"
    /\ calls' = NoCalls
    /\ libError' = "none"
    /\ UNCHANGED << opts, artefacts, bundle, emitted, logged, disk >>
    /\ UNCHANGED strategyVars

\* rollup() returns: the step assigns its artefacts field and completes
StepCompletes ==
    /\ pc = "written"
    /\ artefacts' = [artefacts EXCEPT ![OwnField(step)] = opts.dest]
    /\ outcome' = [outcome EXCEPT ![Len(outcome)] =
                      [@ EXCEPT !.state = "fulfilled"]]
    /\ pc' = "idle"
    /\ step' = "none"
    /\ calls' = NoCalls
    /\ UNCHANGED << opts, bundle, emitted, logged, disk, libError >>
    /\ UNCHANGED strategyVars

-----------------------------------------------------------------------------
(* Specifications                                                          *)

StrategiesIdle ==
    /\ moduleId = EmptyString
    /\ argc = 1
    /\ embedded = << >>
    /\ umdModuleIds = EmptyObject
    /\ platform = "posix"
    /\ returned = FALSE
    /\ isExternal = FALSE
    /\ globalName = EmptyString

StepsIdle ==
    /\ pc = "idle"
    /\ step = "none"
    /\ opts = NoOpts
    /\ artefacts = InitialArtefacts
    /\ bundle = "none"
    /\ emitted = << >>
    /\ logged = << >>
    /\ disk = {}
    /\ libError = "none"
    /\ outcome = << >>
    /\ calls = NoCalls

\* the build pipeline runs the two steps
Init ==
    /\ StrategiesIdle
    /\ StepsIdle

Next ==
    \/ flattenToFesm15
    \/ flattenToUmd
    \/ \E w \in Warnings : BundlerWarns(w)
    \/ RollupFulfils
    \/ \E e \in Errors : RollupRejects(e)
    \/ WriteFulfils
    \/ \E e \in Errors : WriteRejects(e)
    \/ StepRejects
    \/ StepCompletes

Spec ==
    Init /\ [][Next]_vars

-----------------------------------------------------------------------------
(* Calls of the two strategies on enumerated arguments                     *)

RECURSIVE Concats(_, _)
\* the strings made of at most n fragments of F
Concats(F, n) ==
    IF n = 0 THEN { EmptyString }
    ELSE LET shorter == Concats(F, n - 1)
         IN  shorter \cup { s \o f : s \in shorter, f \in F }

ExternalFragments ==
    { S_Dot, S_Slash, I_Drive, I_Backslash, S_CommonjsHelpers, I_Lodash,
      S_Angular, I_Core }

ExternalIds ==
    Concats(ExternalFragments, MaxParts)

\* embedded lists for a call on id: empty, naming id, naming another module
EmbeddedLists(id) ==
    { << >>, << id >>, << I_Lodash >>, << I_Lodash, id >> }

UmdHeads ==
    { EmptyString, S_AngularPBD, S_AngularPB, S_Angular, S_RxjsSlash,
      S_RxjsSlash \o S_Add, I_Rxjs, I_Lodash, I_Constructor }

UmdTails ==
    { I_Core, I_SlashTesting, S_Slash, S_Observable, S_Scheduler, S_Symbol,
      S_Operator, I_Subject, I_Newline }

UmdIds ==
    { h \o t : h \in UmdHeads, t \in Concats(UmdTails, MaxTail) }

OverrideValues ==
    { EmptyString, I_MyLib, I_Path }

\* override tables for a call on id: with and without a key for id, with
\* and without a key for another module
OverrideTables(id) ==
    LET other == { EmptyObject, ( I_Lodash :> << "_" >> ) }
    IN  other \cup { ( id :> v ) @@ o : v \in OverrideValues, o \in other }

InitExternal ==
    /\ moduleId \in ExternalIds
    /\ argc \in { 1, 2 }
    /\ embedded \in EmbeddedLists(moduleId)
    /\ platform \in Platforms
    /\ umdModuleIds = EmptyObject
    /\ returned = FALSE
    /\ isExternal = FALSE
    /\ globalName = EmptyString
    /\ StepsIdle

\* the bundler (or any caller) asks whether moduleId is external
CallExternal ==
    /\ ~ returned
    /\ isExternal' = externalModuleIdStrategy(platform, moduleId, argc >= 2, embedded)
    /\ returned' = TRUE
    /\ UNCHANGED << moduleId, argc, embedded, umdModuleIds, platform, globalName >>
    /\ UNCHANGED stepVars

NextExternal ==
    CallExternal

SpecExternal ==
    InitExternal /\ [][NextExternal]_vars

InitUmd ==
    /\ moduleId \in UmdIds
    /\ argc \in { 1, 2 }
    /\ umdModuleIds \in OverrideTables(moduleId)
    /\ embedded = << >>
    /\ platform = "posix"
    /\ returned = FALSE
    /\ isExternal = FALSE
    /\ globalName = EmptyString
    /\ StepsIdle

\* the bundler (or any caller) asks for the global name of moduleId
CallUmd ==
    /\ ~ returned
    /\ globalName' = umdModuleIdStrategy(moduleId, argc >= 2, umdModuleIds)
    /\ returned' = TRUE
    /\ UNCHANGED << moduleId, argc, embedded, umdModuleIds, platform, isExternal >>
    /\ UNCHANGED stepVars

NextUmd ==
    CallUmd

SpecUmd ==
    InitUmd /\ [][NextUmd]_vars

-----------------------------------------------------------------------------
(* Vocabulary of the properties, stated on the arguments and results alone *)

\* the embedded list the call works with names moduleId
InEmbedded ==
    /\ argc >= 2
    /\ \E i \in 1..Len(embedded) : embedded[i] = moduleId

\* moduleId names a local file: absolute, or starting with '.' or '/'
IsLocalPath ==
    \/ IsAbsolute(platform, moduleId)
    \/ (Len(moduleId) > 0 /\ moduleId[1] \in { ".", "/" })

ContainsHelpers ==
    \E i \in 1..Len(moduleId) :
        /\ i + Len(S_CommonjsHelpers) - 1 <= Len(moduleId)
        /\ SubSeq(moduleId, i, i + Len(S_CommonjsHelpers) - 1) = S_CommonjsHelpers

\* the override table the call works with has moduleId as a key
HasOverride ==
    /\ argc >= 2
    /\ moduleId \in DOMAIN umdModuleIds

HasNonEmptyOverride ==
    /\ HasOverride
    /\ umdModuleIds[moduleId] # EmptyString

\* moduleId is no key of the table but names a member every object inherits
NamesInheritedMember ==
    /\ ~ HasOverride
    /\ moduleId = I_Constructor

Begins(s, p) ==
    /\ Len(p) <= Len(s)
    /\ \A i \in 1..Len(p) : s[i] = p[i]

\* moduleId falls under one of the three @angular rules
UnderAngularRule ==
    \/ Begins(moduleId, S_AngularPB)
    \/ /\ Begins(moduleId, S_Angular)
       /\ Len(moduleId) > Len(S_Angular)
       /\ moduleId[Len(S_Angular) + 1] \notin LineTerminators

RxObservablePath ==
    \/ Begins(moduleId, S_RxjsSlash \o S_Observable)
    \/ Begins(moduleId, S_RxjsSlash \o S_Add \o S_Observable)

RxSchedulerPath ==
    Begins(moduleId, S_RxjsSlash \o S_Scheduler)

RxSymbolPath ==
    Begins(moduleId, S_RxjsSlash \o S_Symbol)

RxOperatorPath ==
    \/ Begins(moduleId, S_RxjsSlash \o S_Operator)
    \/ Begins(moduleId, S_RxjsSlash \o S_Add \o S_Operator)

\* rxjs/<one non-empty segment without a slash>
RxSingleSegment ==
    /\ Begins(moduleId, S_RxjsSlash)
    /\ Len(moduleId) > Len(S_RxjsSlash)
    /\ ~ \E i \in (Len(S_RxjsSlash) + 1)..Len(moduleId) : moduleId[i] = "/"

UnderAnyRule ==
    \/ UnderAngularRule
    \/ RxObservablePath
    \/ RxSchedulerPath
    \/ RxSymbolPath
    \/ RxOperatorPath
    \/ RxSingleSegment

HasSlash(s) ==
    \E i \in 1..Len(s) : s[i] = "/"

-----------------------------------------------------------------------------
(* Properties                                                              *)

\* C1 (as claimed): whenever the identifier is a key of the override table,
\* umdModuleIdStrategy returns the value stored under that key, whatever the
\* value (the empty string included) and whatever pattern rule the
\* identifier also matches.
C1_OverrideAlwaysReturned ==
    (returned /\ HasOverride) => globalName = umdModuleIds[moduleId]

\* C2 (as claimed): an identifier that is not a local path and is not in the
\* embedded set is external, whatever substring it contains.
C2_NonLocalNonEmbeddedIsExternal ==
    (returned /\ ~ IsLocalPath /\ ~ InEmbedded) => isExternal = TRUE

\* C2 (amended): an identifier that is not a local path, is not in the
\* embedded set and does not contain "commonjsHelpers" is external.
C2_NonLocalNonEmbeddedNonHelperIsExternal ==
    (returned /\ ~ IsLocalPath /\ ~ InEmbedded /\ ~ ContainsHelpers)
        => isExternal = TRUE

\* C2 witness: a sub-path of an embedded package, not itself embedded, has
\* been classified external.
C2_Witness ==
    /\ returned
    /\ moduleId = I_Lodash \o S_Slash \o I_Core
    /\ argc = 2
    /\ embedded = << I_Lodash >>
    /\ isExternal = TRUE

\* C3: a local path (absolute, or starting with '.' or '/') and a member of
\* the embedded set are never external, whatever the embedded set is.
C3_LocalOrEmbeddedIsNotExternal ==
    (returned /\ (IsLocalPath \/ InEmbedded)) => isExternal = FALSE

\* C3 witness: a package name that only its membership of the embedded set
\* keeps from being external has been classified not external.
C3_Witness ==
    /\ returned
    /\ moduleId = I_Lodash
    /\ InEmbedded
    /\ ~ IsLocalPath
    /\ ~ ContainsHelpers
    /\ isExternal = FALSE

\* C4 (as claimed): for an identifier without an override under one of the
\* @angular rules, the returned name contains no '/'.
C4_NoSlashInAngularName ==
    (returned /\ ~ HasOverride /\ UnderAngularRule) => ~ HasSlash(globalName)

\* C5: without an override, an identifier beginning with
\* @angular/platform-browser-dynamic yields a name beginning with
\* ng.platformBrowserDynamic (the two examples included), one under
\* @angular/platform-browser but not under the dynamic prefix yields a name
\* beginning with ng.platformBrowser, and @angular/core yields ng.core.
C5_DynamicRuleNotShadowed ==
    (returned /\ ~ HasOverride) =>
        /\ Begins(moduleId, S_AngularPBD) => Begins(globalName, N_NgPBD)
        /\ moduleId = S_AngularPBD => globalName = N_NgPBD
        /\ moduleId = S_AngularPBD \o I_SlashTesting => globalName = I_NgPBDTesting
        /\ (Begins(moduleId, S_AngularPB) /\ ~ Begins(moduleId, S_AngularPBD))
               => Begins(globalName, N_NgPB)
        /\ moduleId = I_AngularCore => globalName = I_NgCore

\* C5 witness: @angular/platform-browser-dynamic/testing has been resolved.
C5_Witness ==
    /\ returned
    /\ ~ HasOverride
    /\ moduleId = S_AngularPBD \o I_SlashTesting
    /\ globalName = I_NgPBDTesting

\* C6: without an override, rxjs/observable... and rxjs/add/observable...
\* yield Rx.Observable, rxjs/scheduler... yields Rx.Scheduler, rxjs/symbol...
\* yields Rx.Symbol, rxjs/operator... and rxjs/add/operator... yield
\* Rx.Observable.prototype, and every other rxjs/<one segment> yields Rx.
C6_RxjsRules ==
    (returned /\ ~ HasOverride) =>
        /\ RxObservablePath => globalName = N_RxObservable
        /\ RxSchedulerPath => globalName = N_RxScheduler
        /\ RxSymbolPath => globalName = N_RxSymbol
        /\ RxOperatorPath => globalName = N_RxObservablePrototype
        /\ ( /\ RxSingleSegment
             /\ ~ RxObservablePath /\ ~ RxSchedulerPath
             /\ ~ RxSymbolPath /\ ~ RxOperatorPath ) => globalName = N_Rx

\* C6 witness: rxjs/add/observable, which only the optional add/ group
\* brings under the observable rule, has been resolved.
C6_Witness ==
    /\ returned
    /\ ~ HasOverride
    /\ moduleId = S_RxjsSlash \o S_Add \o S_Observable
    /\ globalName = N_RxObservable

WarnEntries ==
    SelectSeq(logged, LAMBDA l : l.level = "warn")

\* the diagnostics raised so far whose code is not THIS_IS_UNDEFINED
ForwardableDiagnostics ==
    { i \in 1..Len(emitted) : emitted[i].code # "THIS_IS_UNDEFINED" }

\* every warn entry stems from a diagnostic of another code and carries its
\* message; each such diagnostic has exactly one entry; entries are in
\* emission order
C8_LogMatchesDiagnostics ==
    /\ Len(WarnEntries) = Cardinality(ForwardableDiagnostics)
    /\ \A k \in 1..Len(WarnEntries) :
          /\ WarnEntries[k].diag \in ForwardableDiagnostics
          /\ WarnEntries[k].message = emitted[WarnEntries[k].diag].message
    /\ \A j, k \in 1..Len(WarnEntries) :
          j < k => WarnEntries[j].diag < WarnEntries[k].diag

\* a diagnostic leaves the step where it was: nothing is rejected, and the
\* phase under way goes on
C8_DiagnosticDoesNotAbort ==
    emitted' # emitted =>
        /\ pc' = pc
        /\ outcome' = outcome
        /\ libError' = libError
        /\ calls' = calls

\* C8: a THIS_IS_UNDEFINED diagnostic never reaches the logger, every other
\* diagnostic reaches log.warn exactly once with its message and in emission
\* order, and no diagnostic aborts the step.
C8_DiagnosticsFiltered ==
    /\ [] C8_LogMatchesDiagnostics
    /\ [][C8_DiagnosticDoesNotAbort]_vars

\* C8 witness: both kinds of diagnostic were raised during the build, and the
\* step has gone on to finish its write.
C8_Witness ==
    /\ pc = "written"
    /\ Len(emitted) = 2
    /\ emitted[1].code = "THIS_IS_UNDEFINED"
    /\ emitted[2].code = "UNRESOLVED_IMPORT"
    /\ Len(WarnEntries) = 1

\* the step under way, as the promise it returned
Current ==
    outcome[Len(outcome)]

\* a bundler operation starts at most once per step, the write only with
\* the bundle the build produced
C9_PhasesInOrder ==
    /\ calls.build <= 1
    /\ calls.write <= 1
    /\ calls.write = 1 => (calls.build = 1 /\ bundle = "bundle")
    /\ pc \in { "writing", "written" } => bundle = "bundle"
    /\ pc # "idle" => (Len(outcome) > 0 /\ Current.state = "pending")

\* the context changes only once the write has succeeded, and then only in
\* the step's own field, which receives the destination path
C9_ContextUpdate ==
    artefacts' # artefacts =>
        /\ pc = "written"
        /\ opts.dest \in disk
        /\ step = "flattenToFesm15" =>
              artefacts' = [artefacts EXCEPT !.fesm15BundleFile = opts.dest]
        /\ step = "flattenToUmd" =>
              artefacts' = [artefacts EXCEPT !.umdBundleFile = opts.dest]
        /\ step \in { "flattenToFesm15", "flattenToUmd" }

\* a failed build or write is followed by the step's rejection with that
\* same error and by nothing else: no second attempt, no context change
C9_FailurePropagates ==
    /\ (libError' # libError /\ libError' # "none") =>
          (pc \in { "building", "writing" } /\ pc' = "rejected")
    /\ pc = "rejected" =>
          /\ Len(outcome') = Len(outcome)
          /\ outcome'[Len(outcome)].state = "rejected"
          /\ outcome'[Len(outcome)].error = libError
          /\ artefacts' = artefacts
          /\ disk' = disk
          /\ pc' = "idle"
    /\ ( /\ Len(outcome') = Len(outcome)
         /\ Len(outcome) > 0
         /\ outcome'[Len(outcome)].state = "fulfilled"
         /\ Current.state = "pending" ) =>
          (pc = "written" /\ artefacts'[OwnField(step)] = opts.dest)

\* C9: build, then write, then context update; the write starts only after a
\* successful build, the step's own context field is set to the destination
\* only after a successful write, a failure rejects the step with the same
\* error and leaves the context unchanged, and no other field is changed.
C9_StepPhases ==
    /\ [] C9_PhasesInOrder
    /\ [][C9_ContextUpdate]_vars
    /\ [][C9_FailurePropagates]_vars

\* C9 witness: one step completed and set its field, the other failed in its
\* write and left its field unset.
C9_Witness ==
    /\ pc = "idle"
    /\ Len(outcome) = 2
    /\ outcome[1] = [step |-> "flattenToFesm15", state |-> "fulfilled",
                     error |-> "none"]
    /\ outcome[2] = [step |-> "flattenToUmd", state |-> "rejected",
                     error |-> "E2"]
    /\ bundle = "bundle"
    /\ artefacts.fesm15BundleFile = StageDir \o << "esm2015", "my-lib", ".js" >>
    /\ artefacts.umdBundleFile = Undefined

=============================================================================
